---- MODULE Spec2Model ----
(***************************************************************************)
(* Model of distkeras/distributed_models.py: the parameter server of       *)
(* DistributedModel (Flask routes /parameters and /update guarded by one    *)
(* mutex), the coordinator SparkModel.train/_train and the per-partition    *)
(* SparkWorker.train.                                                       *)
(*                                                                         *)
(* Numbers are in units of 0.5, so [[1.0],[2.0]] is <<<<2>>, <<4>>>>.       *)
(* A ParameterSet is a sequence of tensors, a tensor a sequence of numbers. *)
(*                                                                         *)
(* Names the module calls but does not define (tee, get_master_weights,     *)
(* determine_host_address, optimizer.get_updates) come from                 *)
(* distkeras.networking / distkeras.optimizers, which are not part of the   *)
(* source at hand; they are modelled from the specification.  Names that    *)
(* no import can bind (picle, json_model) raise NameError, attributes that  *)
(* no constructor sets (SparkModel.loss) raise AttributeError.              *)
(***************************************************************************)
EXTENDS Integers, Sequences, FiniteSets, TLC

\* ---------------------------------------------------------------- bounds
MaxReq == 3
MaxWorkers == 2
MaxRecords == 1
MaxFeat == 1

\* ------------------------------------------------------------- constants
FlaskDefaultPort == 5000
DefaultMasterPort == 5000
HttpOk == "200 OK"
HttpServerError == "500 INTERNAL SERVER ERROR"

CoordReq == 0
NoReq == -1
ExtReqs == 1..MaxReq
Reqs == 0..MaxReq
Workers == 1..MaxWorkers

\* ------------------------------------------------------ parameter values
W0 == << <<2>>, <<4>> >>
WEmpty == << >>
D1 == << <<1>>, <<-1>> >>
D2 == << <<2>>, <<0>> >>
DWide == << <<1, 1>>, <<0>> >>
InitialWeightSets == {W0, WEmpty}
\* train(parameters): parameters['nb_epoch'] and parameters['batch_size']
NbEpoch == 2
BatchSize == 2
\* policy names: train tests self.frequency == 'epoch' and knows no other
KnownFrequencies == {"epoch"}
Frequencies == KnownFrequencies \cup {"other"}
Deltas == {D1, D2, DWide}
MasterPorts == {DefaultMasterPort, DefaultMasterPort + 1}

VARIABLES
    teeBound,       \* one of the star imports binds the name tee in this module
    attrsSet,       \* the caller assigned .loss and .frequency on the SparkModel
    portTaken,      \* another live server instance listens on Flask's default port
    startOutcome,   \* how start_server ended for its caller ("none": not called)
    frequency,      \* SparkModel.frequency, the policy name ("unset": no attribute)
    masterPort,     \* self.master_port
    featLen,        \* number of features (at least one) of every record
    initWeights,    \* self.weights: the model's weights as read in __init__
    masterWeights,  \* master_model.get_weights() in the coordinator process
    coordPc,        \* position of SparkModel.train / _train
    masterUrl,      \* the master_url handed to the SparkWorker
    newWeights,     \* new_weights of _train
    srv,            \* the server process: none, starting, running, crashed, stopped
    listenPort,     \* port app.run listens on (0: not listening)
    srvWeights,     \* self.weights in the server process
    mutex,          \* holder of self.mutex (NoReq: free)
    req,            \* the request handlers, one thread per request
    nIssued,        \* number of requests external clients have issued
    applied,        \* the Submits whose assignment to self.weights ran, in order
    part,           \* records per partition after repartition
    wkTrainConfig,  \* SparkWorker.train_config ("unset": no worker built yet)
    wPc,            \* position of each SparkWorker.train invocation
    wOut,           \* what each invocation yielded
    wFetches,       \* Fetch calls each worker made
    wSubmits,       \* Submit calls each worker made
    wModel,         \* whether the worker built its local model
    wBatches,       \* batches of each invocation: <<batch_start, batch_end>> pairs
    wRounds         \* per batch handled: weights fetched, held, trained on,
                    \* weights after the step, and the deltas sent

coordVars == <<teeBound, attrsSet, portTaken, startOutcome, frequency, masterPort, featLen, initWeights, masterWeights,
               coordPc, masterUrl, newWeights>>
srvVars == <<srv, listenPort, srvWeights, mutex, req, nIssued, applied>>
workerVars == <<part, wkTrainConfig, wPc, wOut, wFetches, wSubmits, wModel,
               wBatches, wRounds>>
vars == <<coordVars, srvVars, workerVars>>

\* ------------------------------------------------------ pure functions

\* the shape sequence of a ParameterSet
Shapes(p) == [i \in 1..Len(p) |-> Len(p[i])]

ShapesMatch(p, d) == Shapes(p) = Shapes(d)

\* UpdateRule.combine for the additive rule; defined for matching shapes
Combine(p, d) == [i \in 1..Len(p) |-> [j \in 1..Len(p[i]) |-> p[i][j] + d[i][j]]]

\* an update rule that takes a delta of another shape as a full replacement
get_updates_unchecked(p, d) ==
    IF p # << >> /\ ShapesMatch(p, d) THEN [ok |-> TRUE, val |-> Combine(p, d)]
                                      ELSE [ok |-> TRUE, val |-> d]

\* optimizer.get_updates(self.weights, delta, constraints): an empty store
\* takes the delta as its initial parameter set; otherwise the shapes are
\* validated and the delta is combined
get_updates(p, d) ==
    IF p = << >> THEN [ok |-> TRUE, val |-> d]
    ELSE IF ShapesMatch(p, d) THEN [ok |-> TRUE, val |-> Combine(p, d)]
                              ELSE [ok |-> FALSE, val |-> p]

\* pickle.dumps / pickle.loads: a blob is a tagged value; anything else is garbage
Dumps(x) == [pickled |-> TRUE, val |-> x]
Garbage == [pickled |-> FALSE, val |-> << >>]
Loads(b) == IF b.pickled THEN [ok |-> TRUE, val |-> b.val]
                         ELSE [ok |-> FALSE, val |-> << >>]
Bodies == {Dumps(d) : d \in Deltas} \cup {Garbage}

\* get_master_url: address ":" port; the address is the host's own
get_master_url(port) == [host |-> "master", port |-> port]

NoResp == [status |-> "none", payload |-> << >>]
ErrResp == [status |-> HttpServerError, payload |-> << >>]
OkResp(p) == [status |-> HttpOk, payload |-> p]

IdleReq == [kind |-> "none", body |-> Garbage, pc |-> "none", delta |-> << >>,
            tmp |-> << >>, resp |-> NoResp, seen |-> << >>, nApplied |-> 0]

\* the deltas of the Submits in s, applied to p in order
RECURSIVE ApplyAll(_, _, _)
ApplyAll(p, s, r) ==
    IF s = << >> THEN p
    ELSE ApplyAll(get_updates(p, r[Head(s)].delta).val, Tail(s), r)

\* ------------------------------------------------------------------ Init
Init ==
    /\ attrsSet \in BOOLEAN
    /\ teeBound \in BOOLEAN
    /\ portTaken \in BOOLEAN
    /\ startOutcome = "none"
    /\ frequency \in (IF attrsSet THEN Frequencies ELSE {"unset"})
    /\ masterPort \in MasterPorts
    /\ featLen \in 1..MaxFeat
    /\ initWeights \in InitialWeightSets
    /\ masterWeights = initWeights
    /\ coordPc = "init"
    /\ masterUrl = get_master_url(0)
    /\ newWeights = << >>
    /\ srv = "none"
    /\ listenPort = 0
    /\ srvWeights = initWeights
    /\ mutex = NoReq
    /\ req = [r \in Reqs |-> IdleReq]
    /\ nIssued = 0
    /\ applied = << >>
    /\ part = [w \in Workers |-> 0]
    /\ wkTrainConfig = "unset"
    /\ wPc = [w \in Workers |-> "idle"]
    /\ wOut = [w \in Workers |-> << >>]
    /\ wFetches = [w \in Workers |-> 0]
    /\ wSubmits = [w \in Workers |-> 0]
    /\ wModel = [w \in Workers |-> FALSE]
    /\ wBatches = [w \in Workers |-> << >>]
    /\ wRounds = [w \in Workers |-> << >>]

\* ------------------------------------------------- the server's requests

\* a client's GET /parameters reaches the listening server
client_get ==
    /\ srv = "running"
    /\ nIssued < MaxReq
    /\ nIssued' = nIssued + 1
    /\ req' = [req EXCEPT ![nIssued + 1] =
                  [IdleReq EXCEPT !.kind = "fetch", !.pc = "recv"]]
    /\ UNCHANGED <<srv, listenPort, srvWeights, mutex, applied>>
    /\ UNCHANGED <<coordVars, workerVars>>

\* a client's POST /update with body b reaches the listening server
client_post(b) ==
    /\ srv = "running"
    /\ nIssued < MaxReq
    /\ nIssued' = nIssued + 1
    /\ req' = [req EXCEPT ![nIssued + 1] =
                  [IdleReq EXCEPT !.kind = "submit", !.pc = "recv", !.body = b]]
    /\ UNCHANGED <<srv, listenPort, srvWeights, mutex, applied>>
    /\ UNCHANGED <<coordVars, workerVars>>

\* route_parameters: "with self.mutex:" entered
route_parameters_acquire(r) ==
    /\ srv = "running"
    /\ req[r].kind = "fetch" /\ req[r].pc = "recv"
    /\ mutex = NoReq
    /\ mutex' = r
    /\ req' = [req EXCEPT ![r].pc = "locked"]
    /\ UNCHANGED <<srv, listenPort, srvWeights, nIssued, applied>>
    /\ UNCHANGED <<coordVars, workerVars>>

\* the lock taken with acquire() and released only after a successful dumps:
\* the NameError leaves it held
route_parameters_dumps_held(r) ==
    /\ srv = "running"
    /\ req[r].kind = "fetch" /\ req[r].pc = "locked"
    /\ mutex' = mutex
    /\ req' = [req EXCEPT ![r].pc = "done", ![r].resp = ErrResp,
                          ![r].seen = srvWeights, ![r].nApplied = Len(applied)]
    /\ UNCHANGED <<srv, listenPort, srvWeights, nIssued, applied>>
    /\ UNCHANGED <<coordVars, workerVars>>

\* route_parameters: picle.dumps(...) raises NameError inside the with block;
\* the block releases the mutex and Flask answers 500
route_parameters_dumps(r) ==
    /\ srv = "running"
    /\ req[r].kind = "fetch" /\ req[r].pc = "locked"
    /\ mutex' = NoReq
    /\ req' = [req EXCEPT ![r].pc = "done", ![r].resp = ErrResp,
                          ![r].seen = srvWeights, ![r].nApplied = Len(applied)]
    /\ UNCHANGED <<srv, listenPort, srvWeights, nIssued, applied>>
    /\ UNCHANGED <<coordVars, workerVars>>

\* pickle.loads moved inside a lock taken with acquire() and released only on
\* the normal path
update_parameters_loads_locked(r) ==
    /\ srv = "running"
    /\ req[r].kind = "submit" /\ req[r].pc = "recv"
    /\ mutex = NoReq
    /\ mutex' = r
    /\ LET l == Loads(req[r].body) IN
         IF l.ok
         THEN req' = [req EXCEPT ![r].pc = "locked", ![r].delta = l.val,
                                 ![r].nApplied = Len(applied)]
         ELSE req' = [req EXCEPT ![r].pc = "done", ![r].resp = ErrResp]
    /\ UNCHANGED <<srv, listenPort, srvWeights, nIssued, applied>>
    /\ UNCHANGED <<coordVars, workerVars>>

\* update_parameters: delta = pickle.loads(request.data), before the lock
update_parameters_loads(r) ==
    /\ srv = "running"
    /\ req[r].kind = "submit" /\ req[r].pc = "recv"
    /\ LET l == Loads(req[r].body) IN
         IF l.ok
         THEN req' = [req EXCEPT ![r].pc = "acquire", ![r].delta = l.val,
                                 ![r].nApplied = Len(applied)]
         ELSE req' = [req EXCEPT ![r].pc = "done", ![r].resp = ErrResp]
    /\ UNCHANGED <<srv, listenPort, srvWeights, mutex, nIssued, applied>>
    /\ UNCHANGED <<coordVars, workerVars>>

\* the read-modify-write entered without taking the mutex
update_parameters_acquire_nolock(r) ==
    /\ srv = "running"
    /\ req[r].kind = "submit" /\ req[r].pc = "acquire"
    /\ mutex' = r
    /\ req' = [req EXCEPT ![r].pc = "locked"]
    /\ UNCHANGED <<srv, listenPort, srvWeights, nIssued, applied>>
    /\ UNCHANGED <<coordVars, workerVars>>

\* update_parameters: "with self.mutex:" entered
update_parameters_acquire(r) ==
    /\ srv = "running"
    /\ req[r].kind = "submit" /\ req[r].pc = "acquire"
    /\ mutex = NoReq
    /\ mutex' = r
    /\ req' = [req EXCEPT ![r].pc = "locked"]
    /\ UNCHANGED <<srv, listenPort, srvWeights, nIssued, applied>>
    /\ UNCHANGED <<coordVars, workerVars>>

\* update_parameters: the right-hand side optimizer.get_updates(self.weights,
\* delta, constraints) is evaluated; a raise leaves the with block
update_parameters_compute(r) ==
    /\ srv = "running"
    /\ req[r].kind = "submit" /\ req[r].pc = "locked"
    /\ LET u == get_updates(srvWeights, req[r].delta) IN
         IF u.ok
         THEN /\ req' = [req EXCEPT ![r].pc = "computed", ![r].tmp = u.val]
              /\ mutex' = mutex
         ELSE /\ req' = [req EXCEPT ![r].pc = "done", ![r].resp = ErrResp]
              /\ mutex' = NoReq
    /\ UNCHANGED <<srv, listenPort, srvWeights, nIssued, applied>>
    /\ UNCHANGED <<coordVars, workerVars>>

\* update_parameters: self.weights = <the value computed>
update_parameters_assign(r) ==
    /\ srv = "running"
    /\ req[r].kind = "submit" /\ req[r].pc = "computed"
    /\ srvWeights' = req[r].tmp
    /\ applied' = Append(applied, r)
    /\ req' = [req EXCEPT ![r].pc = "assigned"]
    /\ UNCHANGED <<srv, listenPort, mutex, nIssued>>
    /\ UNCHANGED <<coordVars, workerVars>>

\* update_parameters: the with block ends and the view returns None, which
\* Flask turns into a 500 answer
update_parameters_release(r) ==
    /\ srv = "running"
    /\ req[r].kind = "submit" /\ req[r].pc = "assigned"
    /\ mutex' = NoReq
    /\ req' = [req EXCEPT ![r].pc = "done", ![r].resp = ErrResp]
    /\ UNCHANGED <<srv, listenPort, srvWeights, nIssued, applied>>
    /\ UNCHANGED <<coordVars, workerVars>>

\* ------------------------------------------------------ the server process

\* start_server: Process(target=self.service).start() forks the server
\* process, which holds a copy of self.weights, the snapshot __init__ took of
\* the model's weights; start_server does not read the model again
start_server ==
    /\ srv' = "starting"
    /\ srvWeights' = initWeights
    /\ UNCHANGED <<listenPort, mutex, req, nIssued, applied>>

\* service: app.run(host='0.0.0.0', threaded=True, use_reloader=False) is
\* given no port and listens on Flask's default one; with that port taken the
\* bind fails and the exception ends the server process, not its parent
service ==
    /\ srv = "starting"
    /\ srv' = IF portTaken THEN "crashed" ELSE "running"
    /\ listenPort' = IF portTaken THEN listenPort ELSE FlaskDefaultPort
    /\ UNCHANGED <<srvWeights, mutex, req, nIssued, applied>>
    /\ UNCHANGED <<coordVars, workerVars>>

\* stop_server: terminate() and join() end the server process and its threads
stop_server ==
    /\ srv' = "stopped"
    /\ listenPort' = 0
    /\ UNCHANGED <<srvWeights, mutex, req, nIssued, applied>>

\* ------------------------------------------------------- SparkModel.train

\* train: self.start_server(), which returns None once the process is forked
train_start_server ==
    /\ coordPc = "init"
    /\ start_server
    /\ startOutcome' = "returned"
    /\ coordPc' = "started"
    /\ UNCHANGED <<teeBound, attrsSet, portTaken, frequency, masterPort, featLen, initWeights, masterWeights,
                   masterUrl, newWeights>>
    /\ UNCHANGED workerVars

\* train: self.dataset_rdd.repartition(self.num_workers)
train_repartition ==
    /\ coordPc = "started"
    /\ part' \in [Workers -> 0..MaxRecords]
    /\ coordPc' = "repartitioned"
    /\ UNCHANGED <<teeBound, attrsSet, portTaken, startOutcome, frequency, masterPort, featLen, initWeights, masterWeights,
                   masterUrl, newWeights>>
    /\ UNCHANGED <<wkTrainConfig, wPc, wOut, wFetches, wSubmits, wModel,
                   wBatches, wRounds>>
    /\ UNCHANGED srvVars

\* _train: master_url = self.get_master_url(); SparkWorker(loss=self.loss,
\* frequency=self.frequency, ...) reads attributes only a caller can have set;
\* SparkWorker.__init__ stores the frequency as self.train_config and sets no
\* self.frequency; then mapPartitions(worker.train) hands the partitions to
\* the engine
train_worker ==
    /\ coordPc = "repartitioned"
    /\ masterUrl' = get_master_url(masterPort)
    /\ coordPc' = IF attrsSet THEN "collecting" ELSE "raised"
    /\ wkTrainConfig' = IF attrsSet THEN frequency ELSE wkTrainConfig
    /\ UNCHANGED <<teeBound, attrsSet, portTaken, startOutcome, frequency, masterPort, featLen, initWeights,
                   masterWeights, newWeights>>
    /\ UNCHANGED <<part, wPc, wOut, wFetches, wSubmits, wModel,
                   wBatches, wRounds>>
    /\ UNCHANGED srvVars

\* collect() returning without waiting for the invocations
train_collect_nowait ==
    /\ coordPc = "collecting"
    /\ coordPc' = "fetch"
    /\ UNCHANGED <<teeBound, attrsSet, portTaken, startOutcome, frequency, masterPort, featLen, initWeights, masterWeights,
                   masterUrl, newWeights>>
    /\ UNCHANGED <<srvVars, workerVars>>

\* _train: collect() returns once every partition's invocation has ended
\* normally, and raises when one of them has failed
train_collect ==
    /\ coordPc = "collecting"
    /\ \/ /\ \A w \in Workers : wPc[w] = "done"
          /\ coordPc' = "fetch"
       \/ /\ \E w \in Workers : wPc[w] = "failed"
          /\ coordPc' = "raised"
    /\ UNCHANGED <<teeBound, attrsSet, portTaken, startOutcome, frequency, masterPort, featLen, initWeights, masterWeights,
                   masterUrl, newWeights>>
    /\ UNCHANGED <<srvVars, workerVars>>

\* _train: get_master_weights(master_url) sends GET /parameters to master_url.
\* The request reaches this run's server if it listens there, else the other
\* instance holding that port (the same route, answering 500); nobody
\* listening there is a hard failure of the call
train_fetch_send ==
    /\ coordPc = "fetch"
    /\ IF srv = "running" /\ listenPort = masterUrl.port
       THEN /\ req' = [req EXCEPT ![CoordReq] =
                           [IdleReq EXCEPT !.kind = "fetch", !.pc = "recv"]]
            /\ coordPc' = "awaitFetch"
       ELSE IF portTaken /\ masterUrl.port = FlaskDefaultPort
       THEN /\ req' = [req EXCEPT ![CoordReq] =
                           [IdleReq EXCEPT !.kind = "fetch", !.pc = "done",
                                           !.resp = ErrResp]]
            /\ coordPc' = "awaitFetch"
       ELSE /\ req' = req
            /\ coordPc' = "raised"
    /\ UNCHANGED <<teeBound, attrsSet, portTaken, startOutcome, frequency, masterPort, featLen, initWeights, masterWeights,
                   masterUrl, newWeights>>
    /\ UNCHANGED <<srv, listenPort, srvWeights, mutex, nIssued, applied>>
    /\ UNCHANGED workerVars

\* _train: new_weights = get_master_weights(master_url) receives the answer;
\* what the client makes of a 500 answer is not specified: it raises, or it
\* returns an empty result
train_fetch_recv ==
    /\ coordPc = "awaitFetch"
    /\ req[CoordReq].pc = "done"
    /\ IF req[CoordReq].resp.status = HttpOk
       THEN /\ newWeights' = req[CoordReq].resp.payload
            /\ coordPc' = "fetched"
       ELSE \/ /\ newWeights' = << >>
               /\ coordPc' = "fetched"
            \/ /\ newWeights' = newWeights
               /\ coordPc' = "raised"
    /\ UNCHANGED <<teeBound, attrsSet, portTaken, startOutcome, frequency, masterPort, featLen, initWeights, masterWeights,
                   masterUrl>>
    /\ UNCHANGED <<srvVars, workerVars>>

\* _train: if len(new_weights) != 0: self.master_model.set_weights(new_weights)
train_install ==
    /\ coordPc = "fetched"
    /\ masterWeights' = IF Len(newWeights) # 0 THEN newWeights ELSE masterWeights
    /\ coordPc' = "stop"
    /\ UNCHANGED <<teeBound, attrsSet, portTaken, startOutcome, frequency, masterPort, featLen, initWeights, masterUrl,
                   newWeights>>
    /\ UNCHANGED <<srvVars, workerVars>>

\* _train: self.stop_server()
train_stop_server ==
    /\ coordPc = "stop"
    /\ stop_server
    /\ coordPc' = "done"
    /\ UNCHANGED <<teeBound, attrsSet, portTaken, startOutcome, frequency, masterPort, featLen, initWeights, masterWeights,
                   masterUrl, newWeights>>
    /\ UNCHANGED workerVars

\* ------------------------------------------------------ SparkWorker.train

\* x_train.size of a partition of n records
XTrainSize(n) == n * featLen

\* the engine invokes worker.train on partition w: tee(data_iterator, 2) and
\* the two asarray calls read the whole partition. This file binds tee
\* nowhere; unless a star import does, the call raises NameError and the
\* invocation fails, whatever the partition holds
worker_train_read(w) ==
    /\ coordPc = "collecting"
    /\ wPc[w] = "idle"
    /\ wPc' = [wPc EXCEPT ![w] = IF teeBound THEN "read" ELSE "failed"]
    /\ UNCHANGED <<part, wkTrainConfig, wOut, wFetches, wSubmits, wModel,
                   wBatches, wRounds>>
    /\ UNCHANGED <<coordVars, srvVars>>

\* if( x_train.size == 0 ): return   -- the generator ends, yielding nothing
worker_train_check(w) ==
    /\ wPc[w] = "read"
    /\ wPc' = [wPc EXCEPT ![w] = IF XTrainSize(part[w]) = 0 THEN "done" ELSE "build"]
    /\ UNCHANGED <<part, wkTrainConfig, wOut, wFetches, wSubmits, wModel,
                   wBatches, wRounds>>
    /\ UNCHANGED <<coordVars, srvVars>>

\* model = model_from_json(json_model): json_model is no local and no global
\* name, the call raises NameError and the invocation fails
worker_train_build(w) ==
    /\ wPc[w] = "build"
    /\ wPc' = [wPc EXCEPT ![w] = "failed"]
    /\ UNCHANGED <<part, wkTrainConfig, wOut, wFetches, wSubmits, wModel,
                   wBatches, wRounds>>
    /\ UNCHANGED <<coordVars, srvVars>>

\* ------------------------------------------------------------------ Next

\* the server process and the handler threads of its two routes
NextHandlers ==
    \/ service
    \/ \E r \in Reqs : route_parameters_acquire(r)
    \/ \E r \in Reqs : route_parameters_dumps(r)
    \/ \E r \in Reqs : update_parameters_loads(r)
    \/ \E r \in Reqs : update_parameters_acquire(r)
    \/ \E r \in Reqs : update_parameters_compute(r)
    \/ \E r \in Reqs : update_parameters_assign(r)
    \/ \E r \in Reqs : update_parameters_release(r)

\* clients of the two routes
NextClients ==
    \/ client_get
    \/ \E b \in Bodies : client_post(b)

\* SparkModel.train and the SparkWorker invocations it dispatches
NextCoordinator ==
    \/ train_start_server
    \/ train_repartition
    \/ train_worker
    \/ train_collect
    \/ train_fetch_send
    \/ train_fetch_recv
    \/ train_install
    \/ train_stop_server
    \/ \E w \in Workers : worker_train_read(w)
    \/ \E w \in Workers : worker_train_check(w)
    \/ \E w \in Workers : worker_train_build(w)

Next == NextHandlers \/ NextClients \/ NextCoordinator

Spec == Init /\ [][Next]_vars

\* One training run: the coordinator, its workers, and the server handling
\* the coordinator's own request.
NextTrain ==
    \/ service
    \/ route_parameters_acquire(CoordReq)
    \/ route_parameters_dumps(CoordReq)
    \/ NextCoordinator

SpecTrain == Init /\ [][NextTrain]_vars

\* The server under client load: train() has started the server and is
\* waiting for the engine; the constructor arguments the routes never read
\* are fixed.
InitServer ==
    /\ Init
    /\ teeBound
    /\ attrsSet
    /\ ~portTaken
    /\ frequency \in KnownFrequencies
    /\ masterPort = DefaultMasterPort
    /\ featLen = 1

NextServer ==
    \/ train_start_server
    \/ service
    \/ NextClients
    \/ \E r \in ExtReqs : route_parameters_acquire(r)
    \/ \E r \in ExtReqs : route_parameters_dumps(r)
    \/ \E r \in ExtReqs : update_parameters_loads(r)
    \/ \E r \in ExtReqs : update_parameters_acquire(r)
    \/ \E r \in ExtReqs : update_parameters_compute(r)
    \/ \E r \in ExtReqs : update_parameters_assign(r)
    \/ \E r \in ExtReqs : update_parameters_release(r)

SpecServer == InitServer /\ [][NextServer]_vars

\* Fair scheduling of the handler threads: a thread that can take a step
\* inside its with block eventually takes it, and a thread waiting for the
\* mutex gets it if the mutex stays free.
HandlerFairness ==
    \A r \in ExtReqs :
        /\ WF_vars(update_parameters_loads(r))
        /\ WF_vars(route_parameters_acquire(r))
        /\ WF_vars(update_parameters_acquire(r))
        /\ WF_vars(route_parameters_dumps(r))
        /\ WF_vars(update_parameters_compute(r))
        /\ WF_vars(update_parameters_assign(r))
        /\ WF_vars(update_parameters_release(r))

\* The handler threads contending for the mutex: one initial parameter set,
\* and Submits whose delta is combined (D1) or makes get_updates raise inside
\* the with block (DWide).
LockBodies == {Dumps(D1), Dumps(DWide)}

InitLock == InitServer /\ initWeights = W0

NextLock ==
    \/ train_start_server
    \/ service
    \/ client_get
    \/ \E b \in LockBodies : client_post(b)
    \/ \E r \in ExtReqs : route_parameters_acquire(r)
    \/ \E r \in ExtReqs : route_parameters_dumps(r)
    \/ \E r \in ExtReqs : update_parameters_loads(r)
    \/ \E r \in ExtReqs : update_parameters_acquire(r)
    \/ \E r \in ExtReqs : update_parameters_compute(r)
    \/ \E r \in ExtReqs : update_parameters_assign(r)
    \/ \E r \in ExtReqs : update_parameters_release(r)

SpecLockFair == InitLock /\ [][NextLock]_vars /\ HandlerFairness

TypeOK ==
    /\ srv \in {"none", "starting", "running", "crashed", "stopped"}
    /\ mutex \in Reqs \cup {NoReq}
    /\ nIssued \in 0..MaxReq

\* ---------------------------------------------------------------- claims

FetchDone(r) == req[r].kind = "fetch" /\ req[r].pc = "done"
SubmitOf(r) == req[r].kind = "submit"
InSection(r) == req[r].pc \in {"locked", "computed", "assigned"}
InApplied(r) == \E i \in 1..Len(applied) : applied[i] = r

\* C1: a Fetch handled after a Submit has been applied answers with the
\* store as that Submit left it, combine(p, d); with store [[1.0],[2.0]] and
\* the one delta [[0.5],[-0.5]] applied, it answers [[1.5],[1.5]].
C1_FetchReflectsSubmit ==
    \A r \in Reqs :
        (FetchDone(r) /\ req[r].nApplied >= 1) =>
            /\ req[r].resp = OkResp(req[r].seen)
            /\ (/\ initWeights = W0
                /\ req[r].nApplied = 1
                /\ req[applied[1]].delta = D1)
               => req[r].resp = OkResp(<< <<3>>, <<3>> >>)

\* C2: the store always equals the deltas of the applied Submits combined
\* one after the other onto the initial parameters, each applied Submit
\* counted once, and no validated Submit that ended is missing from them.
C2_SubmitsLinearizable ==
    /\ srvWeights = ApplyAll(initWeights, applied, req)
    /\ \A i, j \in 1..Len(applied) : applied[i] = applied[j] => i = j
    /\ \A r \in Reqs :
          (/\ SubmitOf(r)
           /\ req[r].pc = "done"
           /\ Loads(req[r].body).ok
           /\ ~InApplied(r))
          => /\ ~ShapesMatch(initWeights, Loads(req[r].body).val)
             /\ initWeights = << >> =>
                    /\ Len(applied) >= 1
                    /\ ~ShapesMatch(req[applied[1]].delta, Loads(req[r].body).val)

\* two Submits that both arrived before any was applied have both been applied
C2_Witness ==
    \E r1, r2 \in Reqs :
        /\ r1 # r2
        /\ InApplied(r1) /\ InApplied(r2)
        /\ req[r1].nApplied = 0 /\ req[r2].nApplied = 0
        /\ req[r1].pc = "done" /\ req[r2].pc = "done"
        /\ srvWeights = Combine(Combine(initWeights, req[r1].delta), req[r2].delta)

\* C3: at most one handler is inside its parameter section, that handler
\* holds the mutex, and a Fetch answers with the complete store as it stood
\* when the Fetch was inside its section.
C3_MutexGuardsParameters ==
    /\ \A r1, r2 \in Reqs : (InSection(r1) /\ InSection(r2)) => r1 = r2
    /\ \A r \in Reqs : InSection(r) => mutex = r
    /\ \A r \in Reqs : FetchDone(r) => req[r].resp = OkResp(req[r].seen)

\* C4: every Fetch the running server has handled succeeded, and its result
\* is empty only if no parameters were ever set.
C4_FetchAlwaysSucceeds ==
    \A r \in Reqs :
        FetchDone(r) =>
            /\ req[r].resp.status = HttpOk
            /\ req[r].resp.payload = << >> =>
                   (initWeights = << >> /\ req[r].nApplied = 0)

\* C5: the step that handles a Submit whose body cannot be deserialized ends
\* the request with an error answer and changes neither the store, nor the
\* applied Submits, nor the mutex (which the request does not hold), nor the
\* server's state.
C5_MalformedSubmitRejected ==
    [][\A r \in Reqs :
          (/\ SubmitOf(r)
           /\ ~Loads(req[r].body).ok
           /\ req[r].pc = "recv"
           /\ req'[r].pc # "recv")
          => /\ req'[r].pc = "done"
             /\ req'[r].resp = ErrResp
             /\ srvWeights' = srvWeights
             /\ applied' = applied
             /\ mutex' = mutex
             /\ mutex' # r
             /\ srv' = srv]_vars

\* a malformed Submit was rejected and a Submit issued after it was applied
C5_Witness ==
    \E r1, r2 \in Reqs :
        /\ r1 < r2
        /\ SubmitOf(r1) /\ ~Loads(req[r1].body).ok
        /\ req[r1].pc = "done" /\ req[r1].resp = ErrResp
        /\ InApplied(r2) /\ req[r2].pc = "done"
        /\ mutex = NoReq
        /\ srv = "running"

\* a step that takes Submit r out of the evaluation of get_updates with a
\* delta that has not the store's shape sequence
MismatchStep(r) ==
    /\ SubmitOf(r)
    /\ req[r].pc = "locked"
    /\ ~ShapesMatch(srvWeights, req[r].delta)
    /\ req'[r].pc # "locked"
\* that step rejects the Submit: error answer, store and applied Submits as
\* they were, mutex free, server running
Rejected(r) ==
    /\ req'[r].pc = "done"
    /\ req'[r].resp = ErrResp
    /\ srvWeights' = srvWeights
    /\ applied' = applied
    /\ mutex' = NoReq
    /\ srv' = srv

\* C6 as amended: the step in which a Submit's delta is found not to have the
\* shape sequence of a store that holds parameters ends the request with an
\* error answer, leaves the store and the applied Submits as they were,
\* frees the mutex and leaves the server running.
C6_MismatchOnSetStoreRejected ==
    [][\A r \in Reqs :
          (MismatchStep(r) /\ srvWeights # << >>) => Rejected(r)]_vars

\* C6 as stated: the step in which a Submit's delta is found not to have the
\* store's shape sequence ends the request with an error answer, leaves the
\* store and the applied Submits as they were, frees the mutex and leaves the
\* server running.
C6_ShapeMismatchRejected ==
    [][\A r \in Reqs :
          MismatchStep(r) => Rejected(r)]_vars

\* a Submit of another shape was rejected between two applied Submits, and
\* the store holds exactly the two applied deltas
C6_Witness ==
    \E r1, r2, r3 \in Reqs :
        /\ r1 < r2 /\ r2 < r3
        /\ InApplied(r1) /\ InApplied(r3)
        /\ SubmitOf(r2) /\ Loads(req[r2].body).ok
        /\ srvWeights # << >>
        /\ ~ShapesMatch(srvWeights, req[r2].delta)
        /\ req[r2].pc = "done" /\ req[r2].resp = ErrResp
        /\ ~InApplied(r2)
        /\ req[r2].nApplied = 1
        /\ req[r3].nApplied = 1
        /\ srvWeights = Combine(Combine(initWeights, req[r1].delta), req[r3].delta)
        /\ srv = "running"

WorkerActive(w) == wPc[w] \in {"read", "build"}
FinalFetchSent == req[CoordReq].pc # "none"

\* C7: a Worker is dispatched only once the server process has been started;
\* while the server is stopped no Worker is running (so none fetches or
\* submits); the Coordinator's final Fetch is sent only after every
\* partition's Worker has finished; the server is stopped only after that
\* Fetch has been answered.
C7_LifecycleOrdered ==
    /\ \A w \in Workers : wPc[w] # "idle" => srv # "none"
    /\ srv = "stopped" => \A w \in Workers : wPc[w] = "done"
    /\ FinalFetchSent => \A w \in Workers : wPc[w] = "done"
    /\ srv = "stopped" => (req[CoordReq].pc = "done" /\ coordPc = "done")

\* train() has run to its end: workers done, final Fetch answered, server stopped
C7_Witness ==
    /\ coordPc = "done"
    /\ srv = "stopped"
    /\ req[CoordReq].pc = "done"
    /\ \A w \in Workers : wPc[w] = "done"

\* C8: the Coordinator's final Fetch is answered with the store as the last
\* applied Submit left it, new_weights is that store, and once train() has
\* ended the canonical model holds it (or, if it was empty, is unchanged).
C8_FinalParametersInstalled ==
    /\ req[CoordReq].pc = "done" => req[CoordReq].resp = OkResp(srvWeights)
    /\ coordPc \in {"fetched", "stop", "done"} => newWeights = srvWeights
    /\ coordPc = "done" =>
           masterWeights = IF srvWeights # << >> THEN srvWeights ELSE initWeights

\* C9: the port of the address get_master_url returns is the port the
\* started server listens on, for every configured master_port.
C9_MasterUrlIsListenAddress ==
    srv = "running" => get_master_url(masterPort).port = listenPort

\* C10: a Worker invoked on an empty partition makes no Fetch and no Submit,
\* builds no model, yields nothing, and ends normally, never in failure.
C10_EmptyPartitionNoOp ==
    \A w \in Workers :
        (part[w] = 0 /\ wPc[w] # "idle") =>
            /\ wPc[w] \in {"read", "done"}
            /\ wFetches[w] = 0
            /\ wSubmits[w] = 0
            /\ ~wModel[w]
            /\ wOut[w] = << >>

WorkerEnded(w) == wPc[w] \in {"done", "failed"}
NeverSynchronised(w) == wFetches[w] = 0 /\ wSubmits[w] = 0
UnknownPolicy == attrsSet /\ frequency \notin KnownFrequencies

\* C11: no Worker whose policy is unrecognised has completed normally
\* without a single Fetch or Submit.
C11_UnknownPolicyFails ==
    \A w \in Workers :
        UnknownPolicy => ~(wPc[w] = "done" /\ NeverSynchronised(w))

\* C12: with the port held by a live server instance, start_server does not
\* return normally to its caller (it ends in an error), train() does not go
\* on past it, and no server process of this run dies unnoticed.
C12_StartOnBusyPortFails ==
    portTaken =>
        /\ startOutcome # "returned"
        /\ coordPc \in {"init", "raised"}
        /\ srv # "crashed"

OnlySubmit(rs) == \A r \in Reqs : SubmitOf(r) => r = rs

\* C13: on a server whose store is empty, once the one Submit carrying a
\* Worker's weights_after verbatim has been handled, a Fetch is answered with
\* exactly those weights.
C13_FullReplacementAccepted ==
    [][\A rf, rs \in Reqs :
          (/\ initWeights = WEmpty
           /\ SubmitOf(rs) /\ OnlySubmit(rs)
           /\ Loads(req[rs].body).ok
           /\ req[rs].pc = "done"
           /\ req[rf].kind = "fetch"
           /\ req[rf].pc = "locked"
           /\ req'[rf].pc = "done")
          => req'[rf].resp = OkResp(Loads(req[rs].body).val)]_vars

CeilDiv(n, b) == (n + b - 1) \div b
MinOf(a, b) == IF a < b THEN a ELSE b
HasRecords(w) == part[w] >= 1
PerBatchPolicy == attrsSet /\ frequency \in KnownFrequencies

\* C14: a Worker under the per-batch policy that has ended on a partition of
\* n >= 1 records has ended normally, after exactly
\* nb_epoch * ceil(n / batch_size) Fetches and as many Submits, one Fetch,
\* one training step and one Submit per batch.
C14_PerBatchRounds ==
    \A w \in Workers :
        (PerBatchPolicy /\ HasRecords(w) /\ WorkerEnded(w)) =>
            /\ wPc[w] = "done"
            /\ wFetches[w] = NbEpoch * CeilDiv(part[w], BatchSize)
            /\ wSubmits[w] = NbEpoch * CeilDiv(part[w], BatchSize)
            /\ Len(wRounds[w]) = NbEpoch * CeilDiv(part[w], BatchSize)

\* the batches of n records in batches of b
ExpectedBatches(n, b) ==
    [i \in 1..CeilDiv(n, b) |-> <<(i - 1) * b, MinOf(n, i * b)>>]

\* C15: the batches of a Worker that has ended on a partition of n records
\* are [i*batch_size, min(n, (i+1)*batch_size)) for i in 0..ceil(n/batch_size)-1,
\* and every record index 0..n-1 lies in exactly one of them.
C15_BatchBoundaries ==
    \A w \in Workers :
        (HasRecords(w) /\ WorkerEnded(w)) =>
            /\ wBatches[w] = ExpectedBatches(part[w], BatchSize)
            /\ \A k \in 0..(part[w] - 1) :
                  Cardinality({i \in 1..Len(wBatches[w]) :
                      wBatches[w][i][1] <= k /\ k < wBatches[w][i][2]}) = 1

\* a request that waits to enter "with self.mutex:"
WaitsForMutex(r) ==
    \/ req[r].kind = "fetch" /\ req[r].pc = "recv"
    \/ req[r].kind = "submit" /\ req[r].pc = "acquire"
\* a Submit whose handler raised inside the with block
RaisedInSection(r) ==
    /\ SubmitOf(r) /\ req[r].pc = "done" /\ ~InApplied(r)
    /\ Loads(req[r].body).ok

\* C18: every request that acquires the mutex eventually releases it, also
\* when its handler raises inside the critical section, and under fair
\* scheduling every request waiting for the mutex eventually acquires it.
C18_NoRequestBlocksOnLock ==
    \A r \in ExtReqs :
        /\ (mutex = r) ~> (mutex # r)
        /\ WaitsForMutex(r) ~> (mutex = r)

\* A Submit and a Fetch both raised inside the section, and a later request
\* holds the mutex.
C18_Witness ==
    \E r1, r2, r3 \in ExtReqs :
        /\ RaisedInSection(r1)
        /\ FetchDone(r2)
        /\ r3 > r1 /\ r3 > r2
        /\ mutex = r3 /\ InSection(r3)

\* train() has ended: it returned, or an exception left it
TrainEnded == coordPc \in {"done", "raised"}
\* a server process of this run exists (forked, serving or about to serve)
ServerProcessAlive == srv \in {"starting", "running"}

\* C19: whenever a train() that started the server has ended, by return or by
\* an exception, stop_server has been called and no server process of the run
\* is alive.
C19_ServerStoppedAfterTrain ==
    (startOutcome = "returned" /\ TrainEnded) => ~ServerProcessAlive

\* a step of the handler of Fetch r
FetchStep(r) == req[r].kind = "fetch" /\ req'[r] # req[r]
\* Fetches r and q were answered with the same Submits applied before them
NoSubmitBetween(r, q) ==
    /\ FetchDone(r) /\ FetchDone(q)
    /\ req[r].nApplied = req[q].nApplied

\* C20: a step of a Fetch handler leaves the stored parameters, the sequence
\* of applied updates and the canonical model unchanged, and two Fetches with
\* no Submit applied between them are both answered with the same
\* ParameterSet, the store as it stands.
C20_FetchIsReadOnly ==
    [][\A r \in ExtReqs :
          FetchStep(r) =>
              /\ UNCHANGED <<srvWeights, applied, masterWeights, initWeights>>
              /\ \A q \in ExtReqs :
                    (q # r /\ NoSubmitBetween(r, q)') =>
                        /\ req'[r].resp = OkResp(srvWeights')
                        /\ req'[q].resp = req'[r].resp]_vars

====
